---- MODULE Spec2Model ----
(***************************************************************************)
(* State-machine model of the flappy-bird simulation (src/bob.py) and of   *)
(* the population evaluation loop that drives it (src/bot.py).             *)
(*                                                                         *)
(* Units.  Rect coordinates are integers (pygame.Rect stores ints and      *)
(* truncates a float assigned to it).  Bird.velocity and genome.fitness    *)
(* are decimal fractions in the source; they are held here as integers in  *)
(* hundredths (Scale), so 0.85 is 85 and 11 is 1100.                       *)
(***************************************************************************)
EXTENDS Integers, Sequences, FiniteSets, TLC

(***************************** program constants ***************************)
SCREEN_WIDTH == 600
SCREEN_HEIGHT == 700
GROUND_HEIGHT == 25
CEILING_HEIGHT == 25
BALLOON_WIDTH == 100
BALLOON_SPEED == 4
BALLOON_SPAWN_RATE == 20
\* one pixel (or one fitness point) in the fixed-point unit of velocity/fitness
Scale == 100
\* BIRD_JUMP = 11, GRAVITY = 0.85, in hundredths
BIRD_JUMP == 1100
GRAVITY == 85
\* sprite sizes of the loaded images (bird 34x24; the balloon image is taken
\* to be BALLOON_WIDTH wide, as BalloonSpawner.balloon_radius assumes)
BIRD_IMG_WIDTH == 34
BIRD_IMG_HEIGHT == 24
BALLOON_IMG_HEIGHT == 100
\* BalloonSpawner(5) / Net.max_balloons
MAX_BALLOONS == 5
\* spawn_balloon: tries = 10
TRIES == 10
\* src/bot.py on_game_tick: +0.1 per tick, +10 per scoring tick, -1 on collision
SURVIVE_BONUS == 10
SCORE_BONUS == 1000
COLLISION_PENALTY == 100

(********************************* bounds **********************************)
\* Game.tick() calls explored since the Game was constructed, in the
\* population program and in the player program
MaxTicks == 102
MaxPlayerTicks == 40
\* a QUIT event arrives during one of the first MaxQuitTick ticks, if at all
MaxQuitTick == 25
\* genomes per generation handed to _q_learning_game
NumBirds == 2
\* KEYDOWN-space events a player produces in one session
MaxKeyPresses == 1

(***************************** environment inputs **************************)
\* milliseconds clock.tick(framerate) lets pass per frame (framerate 60)
FrameDelays == {17}
\* pygame.time.get_ticks() when the first session starts
StartClocks == {3}
\* decision functions of the genomes: "jump iff rect.y > threshold"
\* (-1: always jump, 150: hover near the top of the playfield)
NetThresholds == {-1, 150}
\* the genomes' networks: a threshold and the number of obstacles whose
\* perception net.activate() accepts; with more live obstacles the call raises
\* (neat raises RuntimeError on an input vector of the wrong length).  The
\* networks of the second set are hovering ones that accept one obstacle only
NetPolicies ==
    {[threshold |-> t, accepts |-> MAX_BALLOONS] : t \in NetThresholds}
      \cup {[threshold |-> t, accepts |-> 1] : t \in {u \in NetThresholds : u > 0}}

VARIABLES
    program,        \* "bob" (player, src/bob.py main) or "bot" (src/bot.py main)
    pc,             \* position of the driver: idle, tick, act, returned, exited,
                    \* crashed (an exception left the driver loop)
    exit_flag,      \* Game.exit
    events,         \* the events the last Game.tick() returned
    clock,          \* pygame.time.get_ticks(), milliseconds
    ticks,          \* number of Game.tick() calls so far
    updated_by_game,\* Game.updated_by_game, in iteration order
    spawners,       \* Game.spawners
    grounds,        \* rect.x of the Ground and Ceiling sprites
    balloons,       \* the spawner's group, in creation order
    birds,          \* bird id -> Bird fields
    score_value,    \* Score.value of the player session
    birds_mapping,  \* keys of birds_mapping, in insertion order
    fitness,        \* genome id -> genome.fitness (hundredths)
    nets,           \* genome id -> decision function (a NetPolicies record)
    key_presses,    \* KEYDOWN-space events of this session so far
    \* history variables, written only to state the properties
    jumped,         \* birds whose jump() was called in the last loop iteration
    prev_birds,     \* bird id -> Bird fields when the last Game.tick() began
    retired_passed, \* killed balloons of this session whose _passed was set
    last_spawn,     \* what BalloonSpawner.update did last: none/skipped/added
    spawn_tries,    \* the value of tries when its spawn_balloon loop ended
    last_retired,   \* balloons kill()ed in the last BalloonSpawner.update
    penalties       \* genome id -> number of collision penalties applied

vars == <<program, pc, exit_flag, events, clock, ticks, updated_by_game,
          spawners, grounds, balloons, birds, score_value, birds_mapping,
          fitness, nets, key_presses, jumped, prev_birds, retired_passed,
          last_spawn, spawn_tries, last_retired, penalties>>

(********************************* helpers *********************************)
\* float -> int as pygame.Rect does it: truncation toward zero
Trunc(n, d) == IF n >= 0 THEN n \div d ELSE -((-n) \div d)

Abs(n) == IF n < 0 THEN -n ELSE n

Range(f) == {f[i] : i \in DOMAIN f}

RECURSIVE SumSeq(_)
SumSeq(s) == IF s = <<>> THEN 0 ELSE Head(s) + SumSeq(Tail(s))

\* pygame.Rect.colliderect
CollideRect(a, b) ==
    /\ a.x < b.x + b.w
    /\ a.x + a.w > b.x
    /\ a.y < b.y + b.h
    /\ a.y + a.h > b.y

GroundsEnt == [kind |-> "grounds", id |-> 0]
SpawnerEnt == [kind |-> "spawner", id |-> 0]
ScoreEnt == [kind |-> "score", id |-> 0]
BirdEnt(b) == [kind |-> "bird", id |-> b]

(********************************** Bird ***********************************)
\* Bird.__init__: get_rect(center=position), velocity 0, score 0
BirdInit(cx, cy) ==
    [ x |-> cx - BIRD_IMG_WIDTH \div 2,
      y |-> cy - BIRD_IMG_HEIGHT \div 2,
      velocity |-> 0, score |-> 0, score_change |-> 0,
      updates |-> 0, jumps |-> 0 ]

\* Bird((SCREEN_WIDTH * 0.2, SCREEN_HEIGHT // 3))
NewBird == BirdInit((SCREEN_WIDTH * 2) \div 10, SCREEN_HEIGHT \div 3)

BirdRect(bird) ==
    [x |-> bird.x, y |-> bird.y, w |-> BIRD_IMG_WIDTH, h |-> BIRD_IMG_HEIGHT]

\* Bird.update with its two statements swapped (the position moved by the
\* velocity of the previous tick): the variant C2 is checked to exclude
BirdPhysicsPositionFirst(bird) ==
    [bird EXCEPT !.velocity = @ + GRAVITY,
                 !.y = Trunc(bird.y * Scale + bird.velocity, Scale),
                 !.updates = @ + 1]

\* Bird.update, the physics: velocity += GRAVITY; rect.y += velocity
BirdPhysics(bird) ==
    LET v == bird.velocity + GRAVITY
    IN [bird EXCEPT !.velocity = v,
                    !.y = Trunc(bird.y * Scale + v, Scale),
                    !.updates = @ + 1]

\* Bird.jump adding the impulse to the velocity instead of overwriting it:
\* the variant C1 is checked to exclude
BirdJumpAdding(bird) ==
    [bird EXCEPT !.velocity = @ - BIRD_JUMP, !.jumps = @ + 1]

\* Bird.jump that also moves the bird up by the impulse at once: the variant
\* C12 is checked to exclude
BirdJumpMoving(bird) ==
    [bird EXCEPT !.velocity = -BIRD_JUMP, !.y = @ - BIRD_JUMP \div Scale,
                 !.jumps = @ + 1]

\* Bird.jump
BirdJump(bird) == [bird EXCEPT !.velocity = -BIRD_JUMP, !.jumps = @ + 1]

(********************************* Balloon *********************************)
BalloonW == (BALLOON_WIDTH * 9) \div 10
BalloonH == (BALLOON_IMG_HEIGHT * 9) \div 10

\* Balloon.__init__: get_rect(midtop=position), the rect shrunk to 0.9
NewBalloon(px, py, jitter) ==
    [ x |-> px - BALLOON_WIDTH \div 2, y |-> py, jitter |-> jitter,
      passed |-> FALSE, credits |-> <<>> ]

BalloonRect(b) == [x |-> b.x, y |-> b.y, w |-> BalloonW, h |-> BalloonH]
BalloonRight(b) == b.x + BalloonW
BalloonCenterX(b) == b.x + BalloonW \div 2
BalloonCenterY(b) == b.y + BalloonH \div 2

\* Balloon.update: drift left; kill() when the right edge is < 0
BalloonMove(b) == [b EXCEPT !.x = @ - (BALLOON_SPEED + b.jitter)]
BalloonKilled(b) == BalloonRight(b) < 0

\* Balloon.check_passed without the assignment self._passed = True: the
\* variant C3 is checked to exclude
CheckPassedFlagNotSet(b, bird, who) ==
    IF BalloonRight(b) < bird.x /\ ~b.passed
    THEN [balloon |-> [b EXCEPT !.credits = Append(@, who)], result |-> TRUE]
    ELSE [balloon |-> b, result |-> FALSE]

\* Balloon.check_passed without the test "and not self._passed": the variant
\* C18 is checked to exclude
CheckPassedIgnoringFlag(b, bird, who) ==
    IF BalloonRight(b) < bird.x
    THEN [balloon |-> [b EXCEPT !.passed = TRUE, !.credits = Append(@, who)],
          result |-> TRUE]
    ELSE [balloon |-> b, result |-> FALSE]

\* Balloon.check_passed: [balloon after the call, value returned]
CheckPassed(b, bird, who) ==
    IF BalloonRight(b) < bird.x /\ ~b.passed
    THEN [balloon |-> [b EXCEPT !.passed = TRUE, !.credits = Append(@, who)],
          result |-> TRUE]
    ELSE [balloon |-> b, result |-> FALSE]

(****************************** BalloonSpawner *****************************)
balloon_radius == BALLOON_WIDTH \div 2
balloon_spawn_right == SCREEN_WIDTH + balloon_radius
balloon_spawn_top == CEILING_HEIGHT + balloon_radius
balloon_spawn_bottom == SCREEN_HEIGHT - GROUND_HEIGHT - balloon_radius

\* the values random.randint(balloon_spawn_top, balloon_spawn_bottom) is
\* drawn from here: the two ends of the spawn band
SpawnYs == {balloon_spawn_top, balloon_spawn_bottom}

\* spawn_balloon returning without adding a balloon
NoBalloon == -1

\* min_distance of one radius only: the variant C5 is checked to exclude
MinDistanceOneRadius == balloon_radius

\* spawn_balloon: min_distance = self.balloon_radius * 3
MinDistance == balloon_radius * 3

\* BalloonSpawner._is_balloon_radius_free
IsBalloonRadiusFree(bs, new_x, new_y, free_radius) ==
    \A i \in 1..Len(bs) :
        ~ ( /\ new_x - BalloonCenterX(bs[i]) < free_radius
            /\ Abs(new_y - BalloonCenterY(bs[i])) < free_radius )

\* BalloonSpawner.spawn_balloon, the retry loop: the set of results the
\* loop can end with, [y, tries]: a y that was accepted with the value tries
\* has at the break, or NoBalloon when tries reached 0
RECURSIVE SpawnTries(_, _)
SpawnTries(bs, tries) ==
    IF tries = 0 THEN {[y |-> NoBalloon, tries |-> 0]}
    ELSE LET free == {y \in SpawnYs :
                        IsBalloonRadiusFree(bs, balloon_spawn_right, y, MinDistance)}
         IN {[y |-> y, tries |-> tries] : y \in free}
              \cup (IF free # SpawnYs THEN SpawnTries(bs, tries - 1) ELSE {})

\* spawn_balloon without the else branch of its while loop: when the tries
\* run out the last, rejected candidate is added; the variant C20 is checked
\* to exclude
SpawnBalloonWithoutElse(w) ==
    UNION { IF r.y = NoBalloon
            THEN { [w EXCEPT !.balloons =
                                Append(@, NewBalloon(balloon_spawn_right, y, j)),
                             !.last_spawn = "added",
                             !.spawn_tries = r.tries] :
                   y \in {c \in SpawnYs :
                            ~IsBalloonRadiusFree(w.balloons, balloon_spawn_right,
                                                 c, MinDistance)} }
            ELSE { [w EXCEPT !.balloons =
                                Append(@, NewBalloon(balloon_spawn_right, r.y, j)),
                             !.last_spawn = "added",
                             !.spawn_tries = r.tries] } :
            r \in SpawnTries(w.balloons, TRIES), j \in 1..2 }

\* BalloonSpawner.spawn_balloon
SpawnBalloon(w) ==
    { IF r.y = NoBalloon
      THEN [w EXCEPT !.last_spawn = "skipped", !.spawn_tries = r.tries]
      ELSE [w EXCEPT !.balloons =
                        Append(@, NewBalloon(balloon_spawn_right, r.y, j)),
                     !.last_spawn = "added",
                     !.spawn_tries = r.tries] :
      r \in SpawnTries(w.balloons, TRIES), j \in 1..2 }

\* UpdateGroupByGame.update on the balloons: every balloon moves, the killed
\* ones leave the group
BalloonsUpdate(bs) ==
    LET moved == [i \in 1..Len(bs) |-> BalloonMove(bs[i])]
    IN [ live |-> SelectSeq(moved, LAMBDA b : ~BalloonKilled(b)),
         retired |-> Len(SelectSeq(moved, LAMBDA b : BalloonKilled(b))),
         retired_passed |->
            Len(SelectSeq(moved, LAMBDA b : BalloonKilled(b) /\ b.passed)) ]

\* the capacity test with <= for <: the variant C4 is checked to exclude
HasRoomInclusive(n) == n <= MAX_BALLOONS

\* the capacity test of BalloonSpawner.update
HasRoom(n) == n < MAX_BALLOONS

\* BalloonSpawner.update with the capacity test made before the balloons are
\* updated, on the group as the last tick left it: the variant C21 is checked
\* to exclude
SpawnerUpdateTestingFirst(w, now) ==
    LET upd == BalloonsUpdate(w.balloons)
        w1 == [w EXCEPT !.balloons = upd.live,
                        !.last_retired = upd.retired,
                        !.retired_passed = @ + upd.retired_passed]
    IN IF now % BALLOON_SPAWN_RATE = 0 /\ HasRoom(Len(w.balloons))
       THEN SpawnBalloon(w1)
       ELSE {[w1 EXCEPT !.last_spawn = "none"]}

\* BalloonSpawner.update: the group is updated (moved, the killed ones gone),
\* then the cadence and the capacity are tested
SpawnerUpdate(w, now) ==
    LET upd == BalloonsUpdate(w.balloons)
        w1 == [w EXCEPT !.balloons = upd.live,
                        !.last_retired = upd.retired,
                        !.retired_passed = @ + upd.retired_passed]
    IN IF now % BALLOON_SPAWN_RATE = 0 /\ HasRoom(Len(upd.live))
       THEN SpawnBalloon(w1)
       ELSE {[w1 EXCEPT !.last_spawn = "none"]}

\* bird_fly_balloons_diff counting every balloon behind the bird, whatever
\* check_passed returned: the variant C10 is checked to exclude
BirdFlyBalloonsDiffCountingAll(bs, bird, who) ==
    LET res == [i \in 1..Len(bs) |-> CheckPassed(bs[i], bird, who)]
    IN [ balloons |-> [i \in 1..Len(bs) |-> res[i].balloon],
         count |-> Cardinality({i \in 1..Len(bs) : BalloonRight(bs[i]) < bird.x}) ]

\* BalloonSpawner.bird_fly_balloons_diff: [balloons after, count]
BirdFlyBalloonsDiff(bs, bird, who) ==
    LET res == [i \in 1..Len(bs) |-> CheckPassed(bs[i], bird, who)]
    IN [ balloons |-> [i \in 1..Len(bs) |-> res[i].balloon],
         count |-> Cardinality({i \in 1..Len(bs) : res[i].result}) ]

(****************************** Ground, Ceiling ****************************)
GroundW == SCREEN_WIDTH * 2

\* Ground.update / Ceiling.update snapping back only when the strip has left
\* the screen (right edge <= 0): the variant C22 is checked to exclude
StripMoveSnappingLate(x) ==
    LET nx == x - BALLOON_SPEED
    IN IF nx + GroundW <= 0 THEN 0 ELSE nx

\* Ground.update / Ceiling.update
StripMove(x) ==
    LET nx == x - BALLOON_SPEED
    IN IF nx + GroundW <= SCREEN_WIDTH THEN 0 ELSE nx

GroundRect(g) ==
    [x |-> g.ground, y |-> SCREEN_HEIGHT - GROUND_HEIGHT,
     w |-> GroundW, h |-> GROUND_HEIGHT]
CeilingRect(g) == [x |-> g.ceiling, y |-> 0, w |-> GroundW, h |-> CEILING_HEIGHT]

(*********************************** Game **********************************)
\* Game.bird_fly_balloons_count_diff: the balloons of every registered
\* spawner are asked; with no spawner registered the count is 0
BirdFlyBalloonsCountDiff(w, b) ==
    IF spawners = <<>>
    THEN [balloons |-> w.balloons, count |-> 0]
    ELSE BirdFlyBalloonsDiff(w.balloons, w.birds[b], b)

\* Bird.update assigning the count to score instead of adding it: the variant
\* C19 is checked to exclude
BirdUpdateScoreAssigned(w, b) ==
    LET moved == BirdPhysics(w.birds[b])
        w1 == [w EXCEPT !.birds[b] = moved]
        diff == BirdFlyBalloonsCountDiff(w1, b)
    IN [w1 EXCEPT !.balloons = diff.balloons,
                  !.birds[b].score_change = diff.count,
                  !.birds[b].score = diff.count]

\* Bird.update
BirdUpdate(w, b) ==
    LET moved == BirdPhysics(w.birds[b])
        w1 == [w EXCEPT !.birds[b] = moved]
        diff == BirdFlyBalloonsCountDiff(w1, b)
    IN [w1 EXCEPT !.balloons = diff.balloons,
                  !.birds[b].score_change = diff.count,
                  !.birds[b].score = @ + diff.count]

\* the update of one entry of Game.updated_by_game
UpdateObj(obj, w, now) ==
    CASE obj.kind = "grounds" ->
            {[w EXCEPT !.grounds = [ground |-> StripMove(@.ground),
                                    ceiling |-> StripMove(@.ceiling)]]}
      [] obj.kind = "spawner" -> SpawnerUpdate(w, now)
      [] obj.kind = "bird" -> {BirdUpdate(w, obj.id)}
      [] OTHER -> {w}

\* Game.update: every registered object, in list order
RECURSIVE UpdateAll(_, _, _)
UpdateAll(objs, w, now) ==
    IF objs = <<>> THEN {w}
    ELSE UNION { UpdateAll(Tail(objs), w2, now) :
                 w2 \in UpdateObj(Head(objs), w, now) }

\* bird_collide_with_any asking the spawners' groups only, not Game.grounds:
\* the variant C23 is checked to exclude
BirdCollideWithBalloonsOnly(bird, g, bs) ==
    spawners # <<>> /\ \E i \in 1..Len(bs) :
                          CollideRect(BirdRect(bird), BalloonRect(bs[i]))

\* Game.bird_collide_with_any / Bird.collide_with_any
BirdCollideWithAny(bird, g, bs) ==
    \/ CollideRect(BirdRect(bird), GroundRect(g))
    \/ CollideRect(BirdRect(bird), CeilingRect(g))
    \/ spawners # <<>> /\ \E i \in 1..Len(bs) :
                             CollideRect(BirdRect(bird), BalloonRect(bs[i]))

(********************************* actions *********************************)
NoEvents == [quit |-> FALSE, space |-> FALSE]
NoBirds == [b \in {} |-> 0]

Init ==
    /\ program \in {"bob", "bot"}
    /\ pc = "idle"
    /\ exit_flag = FALSE
    /\ events = NoEvents
    /\ clock \in StartClocks
    /\ ticks = 0
    /\ updated_by_game = <<GroundsEnt>>
    /\ spawners = <<>>
    /\ grounds = [ground |-> 0, ceiling |-> 0]
    /\ balloons = <<>>
    /\ birds = NoBirds
    /\ score_value = 0
    /\ birds_mapping = <<>>
    /\ fitness = NoBirds
    /\ nets = NoBirds
    /\ key_presses = 0
    /\ jumped = {}
    /\ prev_birds = NoBirds
    /\ retired_passed = 0
    /\ last_spawn = "none"
    /\ spawn_tries = TRIES
    /\ last_retired = 0
    /\ penalties = NoBirds

\* run_once_for_player, up to the loop: a spawner, a bird and the score
\* are attached, in this order
StartPlayer ==
    /\ program = "bob" /\ pc = "idle"
    /\ updated_by_game' = updated_by_game \o <<SpawnerEnt, BirdEnt(1), ScoreEnt>>
    /\ spawners' = Append(spawners, SpawnerEnt)
    /\ balloons' = <<>>
    /\ birds' = [b \in {1} |-> NewBird]
    /\ score_value' = 0
    /\ key_presses' = 0
    /\ jumped' = {}
    /\ prev_birds' = [b \in {1} |-> NewBird]
    /\ retired_passed' = 0
    /\ last_spawn' = "none"
    /\ spawn_tries' = TRIES
    /\ last_retired' = 0
    /\ pc' = "tick"
    /\ UNCHANGED <<program, exit_flag, events, clock, ticks, grounds,
                   birds_mapping, fitness, nets, penalties>>

\* Game.reset that forgets to empty the registry: the variant C13 is checked
\* to exclude
GameResetKeepingRegistry(ex, ubg, sp) ==
    IF ex
    THEN [raised |-> TRUE, exit |-> ex, updated_by_game |-> ubg, spawners |-> sp]
    ELSE [raised |-> FALSE, exit |-> FALSE, updated_by_game |-> ubg,
          spawners |-> <<>>]

\* Game.reset without the test of Game.exit: the variant C14 is checked to
\* exclude
GameResetNotRaising(ex, ubg, sp) ==
    [raised |-> FALSE, exit |-> FALSE, updated_by_game |-> <<GroundsEnt>>,
     spawners |-> <<>>]

\* Game.reset: SystemExit is raised when Game.exit is set (nothing changes),
\* else the registry is [grounds] again and the spawner list is empty
GameReset(ex, ubg, sp) ==
    IF ex
    THEN [raised |-> TRUE, exit |-> ex, updated_by_game |-> ubg, spawners |-> sp]
    ELSE [raised |-> FALSE, exit |-> FALSE, updated_by_game |-> <<GroundsEnt>>,
          spawners |-> <<>>]

\* main of src/bob.py: game.reset() after run_once_for_player returned
Reset ==
    /\ program = "bob" /\ pc = "returned"
    /\ LET r == GameReset(exit_flag, updated_by_game, spawners)
       IN /\ exit_flag' = r.exit
          /\ updated_by_game' = r.updated_by_game
          /\ spawners' = r.spawners
          /\ IF r.raised
             THEN /\ pc' = "exited"
                  /\ UNCHANGED <<balloons, birds>>
             ELSE /\ pc' = "idle"
                  /\ balloons' = <<>>
                  /\ birds' = NoBirds
    /\ UNCHANGED <<program, events, clock, ticks, grounds,
                   score_value, birds_mapping, fitness, nets, key_presses,
                   jumped, prev_birds, retired_passed, last_spawn,
                   spawn_tries, last_retired, penalties>>

\* Net._q_learning_game, up to the loop: game.reset(), one bird per genome
\* (attached in genome order), fitness 0, then the spawner
StartLearning ==
    /\ program = "bot" /\ pc \in {"idle", "returned"}
    /\ LET r == GameReset(exit_flag, updated_by_game, spawners)
       IN /\ exit_flag' = r.exit
          /\ IF r.raised
             THEN /\ pc' = "exited"
                  /\ UNCHANGED <<updated_by_game, spawners, balloons, birds,
                                 birds_mapping, fitness, nets, jumped,
                                 prev_birds, retired_passed, last_spawn,
                                 spawn_tries, last_retired, penalties>>
             ELSE /\ \E n \in [1..NumBirds -> NetPolicies] : nets' = n
                  /\ updated_by_game' =
                       r.updated_by_game
                          \o [b \in 1..NumBirds |-> BirdEnt(b)]
                          \o <<SpawnerEnt>>
                  /\ spawners' = Append(r.spawners, SpawnerEnt)
                  /\ balloons' = <<>>
                  /\ birds' = [b \in 1..NumBirds |-> NewBird]
                  /\ birds_mapping' = [b \in 1..NumBirds |-> b]
                  /\ fitness' = [b \in 1..NumBirds |-> 0]
                  /\ penalties' = [b \in 1..NumBirds |-> 0]
                  /\ jumped' = {}
                  /\ prev_birds' = [b \in 1..NumBirds |-> NewBird]
                  /\ retired_passed' = 0
                  /\ last_spawn' = "none"
                  /\ spawn_tries' = TRIES
                  /\ last_retired' = 0
                  /\ pc' = "tick"
    /\ UNCHANGED <<program, events, clock, ticks, grounds,
                   score_value, key_presses>>

\* Game.tick: the clock advances, the events are read (QUIT sets Game.exit),
\* Game.update runs every registered object
GameTick ==
    /\ pc = "tick"
    /\ ticks < (IF program = "bob" THEN MaxPlayerTicks ELSE MaxTicks)
    /\ \E d \in FrameDelays,
          quit \in (IF ticks < MaxQuitTick THEN BOOLEAN ELSE {FALSE}),
          space \in (IF program = "bob" /\ key_presses < MaxKeyPresses
                     THEN BOOLEAN ELSE {FALSE}) :
         LET now == clock + d
             w0 == [grounds |-> grounds, balloons |-> balloons,
                    birds |-> birds, retired_passed |-> retired_passed,
                    last_spawn |-> "none", spawn_tries |-> TRIES,
                    last_retired |-> 0]
         IN \E w \in UpdateAll(updated_by_game, w0, now) :
              /\ clock' = now
              /\ events' = [quit |-> quit, space |-> space]
              /\ exit_flag' = (exit_flag \/ quit)
              /\ key_presses' = key_presses + (IF space THEN 1 ELSE 0)
              /\ grounds' = w.grounds
              /\ balloons' = w.balloons
              /\ birds' = w.birds
              /\ retired_passed' = w.retired_passed
              /\ last_spawn' = w.last_spawn
              /\ spawn_tries' = w.spawn_tries
              /\ last_retired' = w.last_retired
    /\ ticks' = ticks + 1
    /\ prev_birds' = birds
    /\ jumped' = {}
    /\ pc' = "act"
    /\ UNCHANGED <<program, updated_by_game, spawners, score_value,
                   birds_mapping, fitness, nets, penalties>>

\* run_once_for_player, the loop body after game.tick(): the events are
\* handled, the score is copied, a colliding bird ends the session
PlayerAct ==
    /\ program = "bob" /\ pc = "act"
    /\ LET bird == IF events.space THEN BirdJump(birds[1]) ELSE birds[1]
           hit == BirdCollideWithAny(bird, grounds, balloons)
       IN /\ birds' = [birds EXCEPT ![1] = bird]
          /\ jumped' = IF events.space THEN {1} ELSE {}
          /\ score_value' = bird.score
          /\ pc' = IF events.quit \/ hit THEN "returned" ELSE "tick"
    /\ events' = NoEvents
    /\ UNCHANGED <<program, exit_flag, clock, ticks, updated_by_game,
                   spawners, grounds, balloons, birds_mapping, fitness, nets,
                   key_presses, prev_birds, retired_passed, last_spawn,
                   spawn_tries, last_retired, penalties>>

\* Net._bird_do_action_by_net: net.activate(...) raising on this tick's
\* perception
NetRaises(g) == Len(balloons) > nets[g].accepts

\* Net._bird_do_action_by_net: the genome's decision function
NetWantsJump(g, bird) == bird.y > nets[g].threshold

\* on_game_tick without "del birds_mapping[key]": the variant C7 is checked
\* to exclude
OnGameTickKeyNotDeleted(s, key) ==
    LET bird0 == s.birds[key]
        fit1 == s.fitness[key] + SURVIVE_BONUS
        fit2 == IF bird0.score_change # 0 THEN fit1 + SCORE_BONUS ELSE fit1
        jump == NetWantsJump(key, bird0)
        bird == IF jump THEN BirdJump(bird0) ELSE bird0
        hit == BirdCollideWithAny(bird, grounds, balloons)
    IN IF NetRaises(key)
       THEN [s EXCEPT !.fitness[key] = fit2, !.raised = TRUE]
       ELSE [ birds |-> [s.birds EXCEPT ![key] = bird],
              mapping |-> s.mapping,
              fitness |-> [s.fitness EXCEPT
                             ![key] = IF hit THEN fit2 - COLLISION_PENALTY
                                      ELSE fit2],
              jumped |-> IF jump THEN s.jumped \cup {key} ELSE s.jumped,
              penalties |-> [s.penalties EXCEPT
                               ![key] = IF hit THEN @ + 1 ELSE @],
              raised |-> FALSE ]

\* on_game_tick, the body of the loop over the keys, for one key:
\* s = [birds, mapping, fitness, jumped, penalties, raised]; an exception of
\* net.activate leaves the body after the bonuses were added
OnGameTickKey(s, key) ==
    LET bird0 == s.birds[key]
        fit1 == s.fitness[key] + SURVIVE_BONUS
        fit2 == IF bird0.score_change # 0 THEN fit1 + SCORE_BONUS ELSE fit1
        jump == NetWantsJump(key, bird0)
        bird == IF jump THEN BirdJump(bird0) ELSE bird0
        hit == BirdCollideWithAny(bird, grounds, balloons)
    IN IF NetRaises(key)
       THEN [s EXCEPT !.fitness[key] = fit2, !.raised = TRUE]
       ELSE [ birds |-> [s.birds EXCEPT ![key] = bird],
              mapping |-> IF hit THEN SelectSeq(s.mapping, LAMBDA k : k # key)
                            ELSE s.mapping,
              fitness |-> [s.fitness EXCEPT
                             ![key] = IF hit THEN fit2 - COLLISION_PENALTY
                                      ELSE fit2],
              jumped |-> IF jump THEN s.jumped \cup {key} ELSE s.jumped,
              penalties |-> [s.penalties EXCEPT
                               ![key] = IF hit THEN @ + 1 ELSE @],
              raised |-> FALSE ]

\* on_game_tick iterating over every bird of the generation instead of the
\* keys still in birds_mapping: the variant C8 is checked to exclude
OnGameTickKeysOfAllBirds(mapping) == [b \in 1..Len(birds) |-> b]

\* the keys on_game_tick iterates over: list(birds_mapping.keys())
OnGameTickKeys(mapping) == mapping

\* on_game_tick, the loop over the keys (the state after each key is bound
\* by a quantifier, which has it evaluated once)
RECURSIVE OnGameTick(_, _)
OnGameTick(s, keys) ==
    IF keys = <<>> \/ s.raised THEN s
    ELSE CHOOSE r \in {OnGameTick(t, Tail(keys)) :
                         t \in {OnGameTickKey(s, Head(keys))}} : TRUE

\* Net._game_loop, the loop body after game.tick(): QUIT ends the loop,
\* on_game_tick runs and ends it when the mapping is empty; an exception
\* raised in on_game_tick is caught nowhere and ends the program
BotAct ==
    /\ program = "bot" /\ pc = "act"
    /\ LET s == OnGameTick([birds |-> birds, mapping |-> birds_mapping,
                            fitness |-> fitness, jumped |-> {},
                            penalties |-> penalties, raised |-> FALSE],
                           OnGameTickKeys(birds_mapping))
       IN /\ birds' = s.birds
          /\ birds_mapping' = s.mapping
          /\ fitness' = s.fitness
          /\ jumped' = s.jumped
          /\ penalties' = s.penalties
          /\ pc' = IF s.raised THEN "crashed"
                   ELSE IF events.quit \/ s.mapping = <<>> THEN "returned"
                   ELSE "tick"
    /\ events' = NoEvents
    /\ UNCHANGED <<program, exit_flag, clock, ticks, updated_by_game,
                   spawners, grounds, balloons, score_value, nets,
                   key_presses, prev_birds, retired_passed, last_spawn,
                   spawn_tries, last_retired>>

Next ==
    \/ StartPlayer
    \/ Reset
    \/ StartLearning
    \/ GameTick
    \/ PlayerAct
    \/ BotAct

Spec == Init /\ [][Next]_vars

(***************************************************************************)
(* One generation, run without a bound on its ticks.                       *)
(*                                                                         *)
(* The loop of Net._game_loop is left only through the QUIT event and the  *)
(* test len(birds_mapping) == 0.  What cannot reach these two tests is not *)
(* carried along, which makes the state space finite: the fitness values,  *)
(* the scores, the history variables, the position of the two strips (they *)
(* collide as a band at fixed height), the state of the birds that left    *)
(* birds_mapping, and of the clock everything but its remainder modulo     *)
(* BALLOON_SPAWN_RATE, which is all BalloonSpawner.update reads.           *)
(* The generation is followed for one sequence of random draws, the one in *)
(* which every random.randint(a, b) returns b.                             *)
(***************************************************************************)
Fold(n, cap) == IF n > cap THEN cap ELSE n

\* the outcome w of a Game.update in which every random.randint(a, b) of
\* spawn_balloon and of Balloon.__init__ returned b: a candidate at
\* balloon_spawn_bottom, accepted at once or rejected ten times, and a
\* jitter of 2
DrawsUpperEnd(w) ==
    LET n == Len(w.balloons)
    IN /\ w.last_spawn = "added" =>
             /\ w.spawn_tries = TRIES
             /\ w.balloons[n].y = balloon_spawn_bottom
             /\ w.balloons[n].jitter = 2
       /\ w.last_spawn = "skipped" =>
             ~IsBalloonRadiusFree(w.balloons, balloon_spawn_right,
                                  balloon_spawn_bottom, MinDistance)

\* the part of a Bird that decides whether its genome stays in birds_mapping
EvalBird(bird, active) ==
    IF active
    THEN [bird EXCEPT !.score = 0, !.score_change = 0,
                      !.updates = Fold(@, 1), !.jumps = Fold(@, 1)]
    ELSE [NewBird EXCEPT !.updates = 1]

\* Game.tick in the loop of Net._game_loop
EvalTick ==
    /\ program = "bot" /\ pc = "tick"
    /\ \E d \in FrameDelays,
          quit \in (IF ticks < MaxQuitTick THEN BOOLEAN ELSE {FALSE}) :
         LET now == clock + d
             w0 == [grounds |-> grounds, balloons |-> balloons,
                    birds |-> birds, retired_passed |-> 0,
                    last_spawn |-> "none", spawn_tries |-> TRIES,
                    last_retired |-> 0]
         IN \E w \in UpdateAll(updated_by_game, w0, now) :
              /\ DrawsUpperEnd(w)
              /\ clock' = now % BALLOON_SPAWN_RATE
              /\ events' = [quit |-> quit, space |-> FALSE]
              /\ exit_flag' = (exit_flag \/ quit)
              /\ balloons' = w.balloons
              /\ birds' = [b \in DOMAIN birds |->
                             EvalBird(w.birds[b], b \in Range(birds_mapping))]
              /\ last_spawn' = w.last_spawn
              /\ spawn_tries' = w.spawn_tries
              /\ last_retired' = w.last_retired
    /\ ticks' = Fold(ticks + 1, MaxQuitTick)
    /\ jumped' = {}
    /\ pc' = "act"
    /\ UNCHANGED <<program, updated_by_game, spawners, grounds, score_value,
                   birds_mapping, fitness, nets, key_presses, prev_birds,
                   retired_passed, penalties>>

\* Net._game_loop, the loop body after game.tick()
EvalAct ==
    /\ program = "bot" /\ pc = "act"
    /\ LET s == OnGameTick([birds |-> birds, mapping |-> birds_mapping,
                            fitness |-> fitness, jumped |-> {},
                            penalties |-> penalties, raised |-> FALSE],
                           OnGameTickKeys(birds_mapping))
       IN /\ birds' = [b \in DOMAIN birds |->
                         EvalBird(s.birds[b], b \in Range(s.mapping))]
          /\ birds_mapping' = s.mapping
          /\ penalties' = s.penalties
          /\ pc' = IF s.raised THEN "crashed"
                   ELSE IF events.quit \/ s.mapping = <<>> THEN "returned"
                   ELSE "tick"
    /\ events' = NoEvents
    /\ UNCHANGED <<program, exit_flag, clock, ticks, updated_by_game,
                   spawners, grounds, balloons, score_value, fitness, nets,
                   key_presses, jumped, prev_birds, retired_passed,
                   last_spawn, spawn_tries, last_retired>>

\* the first call of _q_learning_game by neat's Population.run
EvalStart == pc = "idle" /\ StartLearning

InitEval == Init /\ program = "bot"

NextEval ==
    \/ EvalStart
    \/ EvalTick
    \/ EvalAct

\* the interpreter keeps executing the loop: a step that can be taken is taken
SpecEval == InitEval /\ [][NextEval]_vars /\ WF_vars(NextEval)

(***************************************************************************)
(* One generation on a slower machine, run without a bound on its ticks,   *)
(* with the strips.                                                        *)
(*                                                                         *)
(* clock.tick(framerate) waits for the rest of the frame and returns at    *)
(* once when the frame took longer than 1000 / framerate ms; here the      *)
(* first frame takes a delay of FrameDelays and every later one            *)
(* SlowFrameDelay ms, so that get_ticks() is a multiple of                 *)
(* BALLOON_SPAWN_RATE in every Game.tick() and an obstacle can be retired  *)
(* in an update that tests the capacity.  The strips are carried along;    *)
(* the rest is as in the generation above.                                 *)
(***************************************************************************)
SlowFrameDelay == 20

\* Game.tick in the loop of Net._game_loop, on the slower machine
FieldTick ==
    /\ program = "bot" /\ pc = "tick"
    /\ \E d \in (IF ticks = 0 THEN FrameDelays ELSE {SlowFrameDelay}),
          quit \in (IF ticks < MaxQuitTick THEN BOOLEAN ELSE {FALSE}) :
         LET now == clock + d
             w0 == [grounds |-> grounds, balloons |-> balloons,
                    birds |-> birds, retired_passed |-> 0,
                    last_spawn |-> "none", spawn_tries |-> TRIES,
                    last_retired |-> 0]
         IN \E w \in UpdateAll(updated_by_game, w0, now) :
              /\ DrawsUpperEnd(w)
              /\ clock' = now % BALLOON_SPAWN_RATE
              /\ events' = [quit |-> quit, space |-> FALSE]
              /\ exit_flag' = (exit_flag \/ quit)
              /\ grounds' = w.grounds
              /\ balloons' = w.balloons
              /\ birds' = [b \in DOMAIN birds |->
                             EvalBird(w.birds[b], b \in Range(birds_mapping))]
              /\ last_spawn' = w.last_spawn
              /\ spawn_tries' = w.spawn_tries
              /\ last_retired' = w.last_retired
    /\ ticks' = Fold(ticks + 1, MaxQuitTick)
    /\ jumped' = {}
    /\ pc' = "act"
    /\ UNCHANGED <<program, updated_by_game, spawners, score_value,
                   birds_mapping, fitness, nets, key_presses, prev_birds,
                   retired_passed, penalties>>

NextField ==
    \/ EvalStart
    \/ FieldTick
    \/ EvalAct

SpecField == InitEval /\ [][NextField]_vars

(***************************************************************************)
(* The first session of a player, with the loop of run_once_for_player     *)
(* kept running.                                                           *)
(***************************************************************************)
InitPlay == Init /\ program = "bob"

\* Game.tick in the loop of run_once_for_player, followed for the sequence of
\* random draws in which every random.randint(a, b) returns b
PlayTick ==
    /\ GameTick
    /\ DrawsUpperEnd([balloons |-> balloons', last_spawn |-> last_spawn',
                      spawn_tries |-> spawn_tries'])

NextPlay ==
    \/ StartPlayer
    \/ PlayTick
    \/ PlayerAct

\* the interpreter keeps executing the loop: a step that can be taken is taken
SpecPlay == InitPlay /\ [][NextPlay]_vars /\ WF_vars(NextPlay)

(***************************************************************************)
(* Properties                                                              *)
(***************************************************************************)
Active(g) == g \in Range(birds_mapping)
\* the state between two iterations of a driver loop (or after the last one)
IterationEnd == pc \in {"tick", "returned"}
\* the state right after Game.tick(), before the events are handled
AfterTick == pc = "act"

\* C1: at the end of every driver-loop iteration (Game.tick() followed by the
\* controller's decision) every flyer's velocity is -BIRD_JUMP if jump() was
\* called in that iteration, and otherwise its velocity at the end of the
\* previous iteration plus GRAVITY.
C1_VelocityPerTick ==
    IterationEnd =>
        \A b \in DOMAIN birds :
            birds[b].updates > 0 =>
                birds[b].velocity =
                    IF b \in jumped THEN -BIRD_JUMP
                    ELSE prev_birds[b].velocity + GRAVITY

\* a jump made while falling: the velocity was positive and is now -BIRD_JUMP
C1_Witness ==
    /\ IterationEnd
    /\ \E b \in jumped :
          /\ prev_birds[b].velocity >= 3 * Scale
          /\ birds[b].velocity = -BIRD_JUMP

\* distance fallen after k updates from rest: GRAVITY * (1 + ... + k), each
\* step truncated to whole pixels as the rect stores it
RECURSIVE FallenBy(_)
FallenBy(k) == IF k = 0 THEN 0 ELSE FallenBy(k - 1) + Trunc(k * GRAVITY, Scale)

\* C2 (as amended): every Bird.update first adds GRAVITY to the velocity and
\* then moves rect.y by the updated velocity, truncated to an integer; a
\* flyer that never jumped has velocity k*GRAVITY after k updates and has
\* fallen by the sum of the truncated steps trunc(i*GRAVITY), i = 1..k.
C2_GravityThenPosition ==
    /\ AfterTick =>
          \A b \in DOMAIN birds :
             /\ birds[b].velocity = prev_birds[b].velocity + GRAVITY
             /\ birds[b].y =
                  Trunc(prev_birds[b].y * Scale + birds[b].velocity, Scale)
    /\ \A b \in DOMAIN birds :
          birds[b].jumps = 0 =>
             /\ birds[b].velocity = birds[b].updates * GRAVITY
             /\ birds[b].y = NewBird.y + FallenBy(birds[b].updates)

\* three updates without a jump (velocity 0.85, 1.70, 2.55)
C2_Witness ==
    \E b \in DOMAIN birds :
        /\ birds[b].jumps = 0
        /\ birds[b].updates = 3
        /\ birds[b].velocity = 255

\* C2 (as claimed): a flyer that never jumped has velocity k*GRAVITY after k
\* updates and its y has moved by exactly GRAVITY*(1+2+...+k).
C2_Original ==
    \A b \in DOMAIN birds :
        birds[b].jumps = 0 =>
            /\ birds[b].velocity = birds[b].updates * GRAVITY
            /\ (birds[b].y - NewBird.y) * Scale * 2 =
                  GRAVITY * birds[b].updates * (birds[b].updates + 1)

\* C3: over all check_passed calls made on an obstacle by any flyers,
\* check_passed returns true at most once.
C3_PassedAtMostOnce ==
    \A i \in 1..Len(balloons) : Len(balloons[i].credits) <= 1

\* two flyers are both in front of an obstacle that returned true once
C3_Witness ==
    /\ Len(birds) >= 2
    /\ \E i \in 1..Len(balloons) :
          /\ Len(balloons[i].credits) = 1
          /\ \A b \in DOMAIN birds : BalloonRight(balloons[i]) < birds[b].x

\* C4: the number of live obstacles of a field never exceeds
\* max_balloons_in_screen; a full field spawns nothing, whatever the clock.
C4_AtMostMaxBalloons == Len(balloons) <= MAX_BALLOONS

\* a field update with a full field in which the clock matched the cadence
\* and nothing was spawned
C4_Witness ==
    /\ AfterTick
    /\ Len(balloons) = MAX_BALLOONS
    /\ clock % BALLOON_SPAWN_RATE = 0
    /\ last_spawn = "none"
    /\ \A i \in 1..Len(balloons) : balloons[i].x < SCREEN_WIDTH

\* the position handed to Balloon(...) for the balloon added last: the
\* midtop of its rect
SpawnPosX(b) == b.x + BALLOON_WIDTH \div 2
SpawnPosY(b) == b.y
JustSpawned == AfterTick /\ last_spawn = "added"

\* C5 (as amended): whenever spawn_balloon adds an obstacle, its spawn
\* position (the midtop of its rect) is, for every obstacle live at that
\* moment, at least 3*balloon_radius to the right of that obstacle's center
\* or at least 3*balloon_radius away from it vertically (one axis suffices).
C5_SpawnKeepsOneAxisClear ==
    JustSpawned =>
        LET new == balloons[Len(balloons)]
        IN \A i \in 1..(Len(balloons) - 1) :
              \/ SpawnPosX(new) - BalloonCenterX(balloons[i]) >= 3 * balloon_radius
              \/ Abs(SpawnPosY(new) - BalloonCenterY(balloons[i])) >= 3 * balloon_radius

\* an obstacle was added while another one was horizontally closer than the
\* minimum
C5_Witness ==
    /\ JustSpawned
    /\ \E i \in 1..(Len(balloons) - 1) :
          SpawnPosX(balloons[Len(balloons)]) - BalloonCenterX(balloons[i])
             < 3 * balloon_radius

\* C5 (as claimed): whenever spawn_balloon adds an obstacle, its center is at
\* least 3*balloon_radius away from the center of every live obstacle on the
\* horizontal axis and on the vertical axis.
C5_Original ==
    JustSpawned =>
        LET new == balloons[Len(balloons)]
        IN \A i \in 1..(Len(balloons) - 1) :
              /\ Abs(BalloonCenterX(new) - BalloonCenterX(balloons[i]))
                    >= 3 * balloon_radius
              /\ Abs(BalloonCenterY(new) - BalloonCenterY(balloons[i]))
                    >= 3 * balloon_radius

\* C6 (as claimed): the value tested against the cadence is the number of
\* Game.tick() calls, so a spawn is attempted (an obstacle added, or the
\* placement tries used up) during the n-th tick only if
\* n mod BALLOON_SPAWN_RATE = 0.
C6_SpawnOnlyOnTickMultiples ==
    (AfterTick /\ last_spawn # "none") => ticks % BALLOON_SPAWN_RATE = 0

\* C7: in the tick in which on_game_tick (running to its end) finds a flyer
\* colliding, exactly the
\* colliding flyers leave birds_mapping, each with its fitness lowered by
\* COLLISION_PENALTY (next to that tick's bonuses), and no genome is
\* penalised twice in a generation.
C7_CollidingRemovedAndPenalised ==
    [][ (program = "bot" /\ pc = "act" /\ pc' # "crashed") =>
          \A g \in Range(birds_mapping) :
             LET hit == BirdCollideWithAny(birds'[g], grounds, balloons)
                 bonus == SURVIVE_BONUS
                            + (IF birds[g].score_change # 0 THEN SCORE_BONUS ELSE 0)
             IN /\ hit <=> g \notin Range(birds_mapping')
                /\ fitness'[g] = fitness[g] + bonus
                                   - (IF hit THEN COLLISION_PENALTY ELSE 0)
                /\ penalties'[g] = penalties[g] + (IF hit THEN 1 ELSE 0)
                /\ penalties'[g] <= 1 ]_vars

\* one genome collided and was removed and penalised once, another is still
\* active
C7_Witness ==
    /\ program = "bot" /\ pc = "tick"
    /\ \E g \in DOMAIN penalties : ~Active(g) /\ penalties[g] = 1
    /\ \E g \in DOMAIN penalties : Active(g) /\ penalties[g] = 0

\* C8: once a flyer was deleted from birds_mapping, its genome's fitness does
\* not change in any later tick of that generation.
C8_NoFitnessAfterRemoval ==
    [][ (program = "bot" /\ pc \in {"tick", "act"}) =>
          \A g \in DOMAIN fitness : ~Active(g) => fitness'[g] = fitness[g] ]_vars

\* a removed flyer had a scoring tick, on_game_tick ran after it, and its
\* fitness is still what it was when it was removed
C8_Witness ==
    /\ program = "bot" /\ pc = "tick"
    /\ birds_mapping # <<>>
    /\ \E g \in DOMAIN fitness :
          /\ ~Active(g)
          /\ birds[g].score_change > 0
          /\ fitness[g] < SCORE_BONUS

\* C9 (as claimed): after a flyer collided and was removed from
\* birds_mapping, no later Game.tick() of that generation updates it: its
\* velocity, position and score stay as they are.
C9_RemovedFlyerNotUpdated ==
    [][ (program = "bot" /\ pc = "tick") =>
          \A b \in DOMAIN birds : ~Active(b) => birds'[b] = birds[b] ]_vars

SumScores == SumSeq([b \in DOMAIN birds |-> birds[b].score])
PassedFlagsSet ==
    retired_passed + Cardinality({i \in 1..Len(balloons) : balloons[i].passed})

\* C10: with several flyers on one field each obstacle is credited to at most
\* one flyer, the first whose check_passed call succeeds; the sum of all
\* flyers' scores never exceeds the number of obstacles whose passed flag is
\* set.
C10_OneCreditPerObstacle ==
    /\ SumScores <= PassedFlagsSet
    /\ \A i \in 1..Len(balloons) :
          /\ balloons[i].passed <=> Len(balloons[i].credits) = 1
          /\ Len(balloons[i].credits) <= 1

\* two flyers have both passed an obstacle; one of them holds the one point
C10_Witness ==
    /\ Len(birds) >= 2
    /\ SumScores = 1
    /\ \E i \in 1..Len(balloons) :
          /\ balloons[i].passed
          /\ \A b \in DOMAIN birds : BalloonRight(balloons[i]) < birds[b].x
          /\ birds[balloons[i].credits[1]].score = 1

\* the fields (spawners) registered in updated_by_game all precede the flyers
FieldsBeforeFlyers ==
    \A i, j \in 1..Len(updated_by_game) :
        (updated_by_game[i].kind = "spawner" /\ updated_by_game[j].kind = "bird")
            => i < j

\* C11 (as claimed): in every tick of every session Game.update iterates the
\* registry with the Boundary first, then every ObstacleField, then the
\* flyers: no flyer is updated before a registered field was advanced.
C11_FieldsBeforeFlyersInEveryTick ==
    AfterTick =>
        /\ updated_by_game[1] = GroundsEnt
        /\ FieldsBeforeFlyers

\* C12 (as amended): in every loop iteration the jump request is applied at
\* one point, after Game.tick() returned, that is after that tick's physics
\* step: Bird.update ran on the velocity left by the previous iteration
\* whether or not a jump is requested, and the jump overwrites the velocity
\* afterwards, so that it moves the flyer only in the next tick.
C12_JumpAfterPhysics ==
    /\ AfterTick =>
          \A b \in DOMAIN birds :
             /\ birds[b].velocity = prev_birds[b].velocity + GRAVITY
             /\ birds[b].jumps = prev_birds[b].jumps
    /\ IterationEnd =>
          \A b \in DOMAIN birds :
             birds[b].updates > 0 =>
                /\ birds[b].y =
                     Trunc(prev_birds[b].y * Scale
                             + prev_birds[b].velocity + GRAVITY, Scale)
                /\ birds[b].jumps =
                     prev_birds[b].jumps + (IF b \in jumped THEN 1 ELSE 0)
                /\ b \in jumped => birds[b].velocity = -BIRD_JUMP

\* a player whose KEYDOWN-space was read by a Game.tick() that moved the bird
\* down, the jump being applied after it
C12_Witness ==
    /\ program = "bob" /\ IterationEnd
    /\ 1 \in jumped
    /\ prev_birds[1].velocity > 0
    /\ birds[1].y > prev_birds[1].y
    /\ birds[1].velocity = -BIRD_JUMP

\* C12 (as claimed): the jump request of a tick is applied before that
\* tick's physics step: the Bird.update of the iteration in which a jump is
\* made already runs on the velocity -BIRD_JUMP.
C12_Original ==
    IterationEnd =>
        \A b \in jumped :
           /\ birds[b].velocity = -BIRD_JUMP + GRAVITY
           /\ birds[b].y =
                Trunc(prev_birds[b].y * Scale - BIRD_JUMP + GRAVITY, Scale)

\* C16 (as claimed): every call of Bird.jump() records the flyer's current y
\* as its last-jump position: right after a jump the flyer has a last_jump_y
\* and it equals rect.y.
C16_JumpRecordsLastJumpY ==
    IterationEnd =>
        \A b \in jumped :
           /\ "last_jump_y" \in DOMAIN birds[b]
           /\ birds[b].last_jump_y = birds[b].y

\* the driver is about to call Game.reset(): main of src/bob.py after a
\* session returned, _q_learning_game at the start of a generation
Resetting ==
    \/ program = "bob" /\ pc = "returned"
    \/ program = "bot" /\ pc \in {"idle", "returned"}

\* C13: Game.reset() with no quit pending leaves the registry equal to
\* [Boundary] and the spawner list empty, no field or flyer of the finished
\* session stays registered (in _q_learning_game the registry after the
\* set-up holds the Boundary, the new flyers and the new field only), and the
\* Boundary keeps its strips at their current positions.
C13_ResetLeavesOnlyBoundary ==
    [][ (Resetting /\ ~exit_flag) =>
          /\ grounds' = grounds
          /\ ~exit_flag'
          /\ program = "bob" =>
                /\ updated_by_game' = <<GroundsEnt>>
                /\ spawners' = <<>>
                /\ balloons' = <<>> /\ birds' = NoBirds
          /\ program = "bot" =>
                /\ updated_by_game' =
                     <<GroundsEnt>> \o [b \in 1..NumBirds |-> BirdEnt(b)]
                                    \o <<SpawnerEnt>>
                /\ spawners' = <<SpawnerEnt>>
                /\ balloons' = <<>> ]_vars

\* a player session ended by a collision was reset: the registry is
\* [Boundary], the strips are where the session left them
C13_Witness ==
    /\ program = "bob" /\ pc = "idle" /\ ticks > 0
    /\ updated_by_game = <<GroundsEnt>> /\ spawners = <<>>
    /\ grounds.ground < 0

\* C14: the Game.tick() that reads a QUIT event still updates every entity;
\* after it the driver loop ends, no Game.tick()/update runs any more (the
\* tick count, the strips and the obstacles stay as they are) and the next
\* Game.reset() raises SystemExit instead of starting a session or generation.
C14_QuitStopsAfterTheTick ==
    [][ /\ (~exit_flag /\ exit_flag') =>
              /\ ticks' = ticks + 1
              /\ pc' = "act"
              /\ grounds'.ground = StripMove(grounds.ground)
              /\ \A b \in DOMAIN birds :
                    birds'[b].updates = birds[b].updates + 1
        /\ exit_flag =>
              /\ exit_flag'
              /\ ticks' = ticks /\ clock' = clock
              /\ grounds' = grounds /\ balloons' = balloons
              /\ updated_by_game' = updated_by_game
              /\ pc = "act" => pc' \in {"returned", "crashed"}
              /\ pc = "returned" => pc' = "exited" ]_vars

\* a QUIT arrived in a later tick of a session and the following reset raised
C14_Witness ==
    /\ pc = "exited" /\ exit_flag
    /\ ticks > 1
    /\ Len(updated_by_game) > 1

\* C15 (as claimed): when an agent's decision function raises in a tick of
\* the population evaluation, that agent alone is treated as collided (one
\* collision penalty, removed from the active set) and the evaluation goes
\* on: on_game_tick returns and every other active agent gets that tick's
\* survival bonus.
C15_RaisingAgentAloneCollides ==
    [][ (program = "bot" /\ pc = "act") =>
          \A g \in Range(birds_mapping) :
             /\ NetRaises(g) =>
                   /\ penalties'[g] = penalties[g] + 1
                   /\ g \notin Range(birds_mapping')
             /\ pc' \in {"tick", "returned"}
             /\ fitness'[g] >= fitness[g] + SURVIVE_BONUS - COLLISION_PENALTY
      ]_vars

\* the obstacles that survive the field update of the next Game.tick(), and
\* the index such an obstacle has in the group afterwards
Kept == {i \in 1..Len(balloons) : ~BalloonKilled(BalloonMove(balloons[i]))}
PosAfter(i) == Cardinality({j \in Kept : j <= i})
\* the right edge obstacle i has when the flyers call check_passed in the
\* next Game.tick(): moved already if the field is updated before the flyers
AtCallRight(i) ==
    IF FieldsBeforeFlyers THEN BalloonRight(BalloonMove(balloons[i]))
    ELSE BalloonRight(balloons[i])
Behind(i) == \E b \in DOMAIN birds : AtCallRight(i) < birds[b].x

\* C18: check_passed returns true if and only if the obstacle's right edge is
\* strictly left of the flyer's left edge and the flag is unset; exactly then
\* it sets the flag; otherwise the flag keeps its value, and a set flag is
\* never reset (over all the calls of a tick: one true return for an obstacle
\* that is behind a flyer with its flag unset, none otherwise).
C18_CheckPassedIffBehindAndUnset ==
    [][ /\ pc = "tick" =>
              \A i \in Kept :
                 LET old == balloons[i]
                     new == balloons'[PosAfter(i)]
                 IN /\ Len(new.credits) - Len(old.credits) =
                          (IF Behind(i) /\ ~old.passed THEN 1 ELSE 0)
                    /\ new.passed = (old.passed \/ Behind(i))
        /\ pc = "act" => balloons' = balloons ]_vars

\* an obstacle whose flag was set in an earlier tick was asked again by the
\* flyers, returned false and kept its flag, next to an obstacle that is not
\* yet behind the flyers and has its flag unset
C18_Witness ==
    /\ AfterTick
    /\ \E i \in 1..Len(balloons) :
          /\ balloons[i].passed /\ Len(balloons[i].credits) = 1
          /\ BalloonRight(balloons[i]) < NewBird.x - 2 * (BALLOON_SPEED + 2)
    /\ \E i \in 1..Len(balloons) :
          /\ ~balloons[i].passed /\ balloons[i].credits = <<>>
          /\ BalloonRight(balloons[i]) >= NewBird.x

\* C19: in every Bird.update score_change is set to the number of obstacles
\* for which check_passed returned true for that flyer in that update, score
\* grows by exactly that number, score_change is never negative and a
\* flyer's score never decreases.
C19_ScoreChangeCountsTrueReturns ==
    [][ /\ pc = "tick" =>
              \A b \in DOMAIN birds :
                 LET credited ==
                       {i \in Kept :
                          LET new == balloons'[PosAfter(i)]
                          IN /\ Len(new.credits) = Len(balloons[i].credits) + 1
                             /\ new.credits[Len(new.credits)] = b}
                 IN /\ birds'[b].score_change = Cardinality(credited)
                    /\ birds'[b].score = birds[b].score + birds'[b].score_change
                    /\ birds'[b].score_change >= 0
        /\ pc = "act" =>
              \A b \in DOMAIN birds :
                 /\ birds'[b].score = birds[b].score
                 /\ birds'[b].score_change = birds[b].score_change ]_vars

\* a flyer that scored in an earlier tick keeps its point through an update
\* in which it passed nothing
C19_Witness ==
    /\ AfterTick
    /\ \E b \in DOMAIN birds :
          /\ birds[b].score = 1
          /\ birds[b].score_change = 0
          /\ prev_birds[b].score = 1

\* where the field update of the next Game.tick() leaves the surviving
\* obstacles, and the obstacles of the group after it, as positions
Pos(b) == <<b.x, b.y>>
SurvivorsMoved == BalloonsUpdate(balloons).live

\* C20: spawn_balloon ends after at most TRIES placement attempts; when all
\* of them were rejected no obstacle is added, the live set is what the
\* retirement left and the tick goes on without an error; when a candidate
\* was accepted exactly one obstacle is added, at the accepted position (a
\* position of the spawn column that is free of the surviving obstacles).
C20_SpawnBoundedAndAtomic ==
    [][ pc = "tick" =>
          LET n == Len(SurvivorsMoved)
              same == \A i \in 1..n :
                         Pos(balloons'[i]) = Pos(SurvivorsMoved[i])
          IN /\ spawn_tries' \in 0..TRIES
             /\ pc' = "act"
             /\ last_spawn' \in {"none", "skipped"} =>
                   Len(balloons') = n /\ same
             /\ last_spawn' = "skipped" => spawn_tries' = 0
             /\ last_spawn' = "added" =>
                   /\ spawn_tries' \in 1..TRIES
                   /\ Len(balloons') = n + 1 /\ same
                   /\ LET new == balloons'[n + 1]
                      IN /\ SpawnPosX(new) = balloon_spawn_right
                         /\ SpawnPosY(new) \in
                               balloon_spawn_top..balloon_spawn_bottom
                         /\ IsBalloonRadiusFree(SurvivorsMoved, SpawnPosX(new),
                                                SpawnPosY(new), MinDistance)
      ]_vars

\* a spawn whose ten candidates were all rejected although the field had
\* room: nothing was added
C20_Witness ==
    /\ AfterTick
    /\ last_spawn = "skipped" /\ spawn_tries = 0
    /\ Len(balloons) \in 1..(MAX_BALLOONS - 1)
    /\ clock % BALLOON_SPAWN_RATE = 0

\* C17 (as claimed): every generation's evaluation terminates: whatever the
\* controllers and the spawner do, the stepping loop of _game_loop eventually
\* stops.
C17_EvaluationTerminates == <>(pc \in {"returned", "crashed"})

\* the obstacles whose right edge is < 0 once the next field update has moved
\* them
Retiring ==
    {i \in 1..Len(balloons) :
       BalloonRight(balloons[i]) - (BALLOON_SPEED + balloons[i].jitter) < 0}

\* C21: in each field update the live obstacles are advanced and retired
\* before a spawn is attempted: the obstacles whose right edge becomes < 0 in
\* the update, and only they, leave the field in that update, so no live
\* obstacle has a right edge < 0 afterwards; the capacity test counts the
\* survivors only (a spawn is attempted exactly when get_ticks() is on the
\* cadence and fewer than MAX_BALLOONS obstacles survived); and an obstacle
\* spawned in a tick is still at its spawn position after that tick.
C21_RetireBeforeSpawn ==
    [][ pc = "tick" =>
          LET n == Len(balloons) - Cardinality(Retiring)
          IN /\ last_retired' = Cardinality(Retiring)
             /\ Kept = (1..Len(balloons)) \ Retiring
             /\ Len(balloons') = n + (IF last_spawn' = "added" THEN 1 ELSE 0)
             /\ \A i \in Kept :
                   LET old == balloons[i]
                       new == balloons'[PosAfter(i)]
                   IN /\ PosAfter(i) <= n
                      /\ new.x = old.x - (BALLOON_SPEED + old.jitter)
                      /\ new.y = old.y /\ new.jitter = old.jitter
             /\ \A i \in 1..Len(balloons') : BalloonRight(balloons'[i]) >= 0
             /\ (last_spawn' # "none") <=>
                   (clock' % BALLOON_SPAWN_RATE = 0 /\ n < MAX_BALLOONS)
             /\ last_spawn' = "added" =>
                   SpawnPosX(balloons'[n + 1]) = balloon_spawn_right
      ]_vars

\* a field update that retired one of MAX_BALLOONS live obstacles and then
\* attempted a spawn, the capacity test having counted the survivors
C21_Witness ==
    /\ AfterTick
    /\ last_retired = 1
    /\ Len(balloons) = MAX_BALLOONS - 1
    /\ last_spawn # "none"

\* C22: after any number of ticks each strip still spans the playfield
\* horizontally (left <= 0 and right >= SCREEN_WIDTH, width 2 * SCREEN_WIDTH)
\* at its fixed height: the ground fills the lowest GROUND_HEIGHT pixels, the
\* ceiling the topmost CEILING_HEIGHT.
C22_StripsSpanPlayfield ==
    /\ \A r \in {GroundRect(grounds), CeilingRect(grounds)} :
          /\ r.x <= 0
          /\ r.x + r.w >= SCREEN_WIDTH
          /\ r.w = 2 * SCREEN_WIDTH
    /\ GroundRect(grounds).y = SCREEN_HEIGHT - GROUND_HEIGHT
    /\ GroundRect(grounds).h = GROUND_HEIGHT
    /\ CeilingRect(grounds).y = 0
    /\ CeilingRect(grounds).h = CEILING_HEIGHT

\* a Game.tick() in which both strips were snapped back to left = 0, their
\* right edge having reached SCREEN_WIDTH
C22_Witness ==
    /\ AfterTick
    /\ grounds.ground = 0
    /\ grounds.ceiling = 0

\* the flyers whose jump() was never called
NeverJumped == {b \in DOMAIN birds : birds[b].jumps = 0}
\* a flyer that has not reached the floor band: its bottom edge is not below
\* the top of the ground strip
AboveFloor(b) ==
    BirdRect(birds[b]).y + BirdRect(birds[b]).h <= GroundRect(grounds).y

\* C23: a flyer whose controller never requests a jump is eventually
\* detected as colliding, which ends its session (unless a QUIT event has
\* ended the session before); while it falls it is, after every tick, either
\* still above the floor band or overlapping it, so that
\* bird_collide_with_any returns true: it never steps over the band.
C23_NeverJumpingFlyerCollides ==
    /\ [](\A b \in NeverJumped :
             AboveFloor(b) \/ CollideRect(BirdRect(birds[b]), GroundRect(grounds)))
    /\ <>(\/ \E b \in DOMAIN birds : b \notin NeverJumped
          \/ /\ pc = "returned"
             /\ \/ exit_flag
                \/ \A b \in NeverJumped :
                      BirdCollideWithAny(birds[b], grounds, balloons))

\* a session that ended without a QUIT event, its flyer never having jumped
\* and overlapping the ground strip
C23_Witness ==
    /\ pc = "returned"
    /\ ~exit_flag
    /\ NeverJumped = {1}
    /\ birds[1].updates > 1
    /\ CollideRect(BirdRect(birds[1]), GroundRect(grounds))
    /\ BirdCollideWithAny(birds[1], grounds, balloons)

====
